---- MODULE Spec2Model ----
(***************************************************************************)
(* A model of the pn532 package: the frame codec (pn532/__init__.py), the  *)
(* frame-type registry filled by Frame's metaclass, and the serial         *)
(* transport engine PN532 (pn532/_stream.py).                              *)
(*                                                                         *)
(* Python values are modelled as tagged records [t, v] so that the         *)
(* isinstance tests and the TypeErrors of the source can be reproduced:    *)
(* v is always a sequence of integers.  A call that can raise returns a    *)
(* record [exc, val]; exc = "none" means a normal return.                  *)
(***************************************************************************)
EXTENDS Integers, Sequences, FiniteSets, TLC

----------------------------------------------------------------------------
(* Python values *)

PyInt(n)   == [t |-> "int",   v |-> <<n>>]
PyNone     == [t |-> "None",  v |-> <<>>]
PyStr(s)   == [t |-> "str",   v |-> s]
PyList(s)  == [t |-> "list",  v |-> s]
PyTuple(s) == [t |-> "tuple", v |-> s]
PyDict(s)  == [t |-> "dict",  v |-> s]

Ok(bytes) == [exc |-> "none", val |-> bytes]
Raise(e)  == [exc |-> e, val |-> <<>>]

(* sum(s), halving the sequence to keep the recursion shallow *)
RECURSIVE Sum(_)
Sum(s) ==
    IF s = <<>> THEN 0
    ELSE IF Len(s) = 1 THEN s[1]
    ELSE Sum(SubSeq(s, 1, Len(s) \div 2)) + Sum(SubSeq(s, Len(s) \div 2 + 1, Len(s)))

Min(a, b) == IF a < b THEN a ELSE b

(* s[a..b] in Python slice terms s[a-1:b], clipped to the sequence *)
Slice(s, a, b) == IF b < a THEN <<>> ELSE SubSeq(s, a, Min(b, Len(s)))

----------------------------------------------------------------------------
(* pn532/__init__.py: helpers *)

(* the builtin chr, as map(chr, nums) applies it to each argument *)
chr(x) ==
    IF x.t # "int" THEN Raise("TypeError")
    ELSE IF x.v[1] \in 0..255 THEN Ok(<<x.v[1]>>)
    ELSE Raise("ValueError")

(* bytepack: ''.join(map(chr, nums)); nums is the argument tuple *)
bytepack(nums) ==
    LET bad == {i \in 1..Len(nums) : chr(nums[i]).exc # "none"}
    IN  IF bad # {}
        THEN Raise(chr(nums[CHOOSE i \in bad : \A j \in bad : i <= j]).exc)
        ELSE Ok([i \in 1..Len(nums) |-> nums[i].v[1]])

(* tobytes(n, l): rv collects the l low bytes of n, lowest first, and the  *)
(* list rv is passed to bytepack as its single argument                    *)
tobytes(n, l) ==
    LET rv == [i \in 1..l |-> (n \div (256 ^ (i - 1))) % 256]
    IN  bytepack(<<PyList(rv)>>)

(* mutant of _checksum: the sum itself instead of its negative *)
_checksum_NotNegated(data) == Sum(data) % 256

(* Frame._checksum(data): -sum(data) & 0xFF, data a byte string or, for a  *)
(* number, the one-element list [data]                                     *)
_checksum(data) == (0 - Sum(data)) % 256

----------------------------------------------------------------------------
(* pn532/__init__.py and pn532/Rf.py: the frame classes *)

(* the class statements in the order Python executes them: __init__.py,    *)
(* then "import pn532.Rf" at its end                                       *)
ClassDefs ==
    << "Frame", "ACK", "NACK", "Error",
       "Diagnose", "DiagnoseResponse",
       "GetFirmwareVersion", "GetFirmwareVersionResponse",
       "GetGeneralStatus", "GetGeneralStatusResponse",
       "ReadRegister", "ReadRegisterResponse",
       "WriteRegister", "WriteRegisterResponse",
       "ReadGPIO", "ReadGPIOResponse",
       "WriteGPIO", "WriteGPIOResponse",
       "SetSerialBaudRate", "SetSerialBaudRateResponse",
       "SetParameters", "SetParametersResponse",
       "SAMConfiguration", "SAMConfigurationResponse",
       "PowerDown", "PowerDownResponse",
       "Configuration", "ConfigurationResponse", "RegulationTest" >>

(* cls.__code__: <<>> stands for None *)
__code__(cls) ==
    CASE cls = "Diagnose"                   -> <<0>>
      [] cls = "DiagnoseResponse"           -> <<1>>
      [] cls = "GetFirmwareVersion"         -> <<2>>
      [] cls = "GetFirmwareVersionResponse" -> <<3>>
      [] cls = "GetGeneralStatus"           -> <<4>>
      [] cls = "GetGeneralStatusResponse"   -> <<5>>
      [] cls = "ReadRegister"               -> <<6>>
      [] cls = "ReadRegisterResponse"       -> <<7>>
      [] cls = "WriteRegister"              -> <<8>>
      [] cls = "WriteRegisterResponse"      -> <<9>>
      [] cls = "ReadGPIO"                   -> <<12>>
      [] cls = "ReadGPIOResponse"           -> <<13>>
      [] cls = "WriteGPIO"                  -> <<14>>
      [] cls = "WriteGPIOResponse"          -> <<15>>
      [] cls = "SetSerialBaudRate"          -> <<16>>
      [] cls = "SetSerialBaudRateResponse"  -> <<17>>
      [] cls = "SetParameters"              -> <<18>>
      [] cls = "SetParametersResponse"      -> <<19>>
      [] cls = "SAMConfiguration"           -> <<20>>
      [] cls = "SAMConfigurationResponse"   -> <<21>>
      [] cls = "PowerDown"                  -> <<22>>
      [] cls = "PowerDownResponse"          -> <<23>>
      [] cls = "Configuration"              -> <<50>>
      [] cls = "ConfigurationResponse"      -> <<51>>
      [] cls = "RegulationTest"             -> <<88>>
      [] OTHER                              -> <<>>

(* the field names given to the @fields decorator: the namedtuple's arity; *)
(* <<>> for a class that is not decorated                                  *)
fields(cls) ==
    CASE cls = "Diagnose"                   -> <<"NumTst", "InParam">>
      [] cls = "DiagnoseResponse"           -> <<"OutParam">>
      [] cls = "GetFirmwareVersionResponse" -> <<"IC", "Ver", "Rev", "Support">>
      [] cls = "GetGeneralStatusResponse"   -> <<"Err", "Field", "targets", "SAMstatus">>
      [] cls = "ReadGPIOResponse"           -> <<"P3", "P7", "I0I1">>
      [] cls = "WriteGPIO"                  -> <<"P3", "P7">>
      [] cls = "SetSerialBaudRate"          -> <<"BR">>
      [] cls = "SetParameters"              -> <<"Flags">>
      [] cls = "SAMConfiguration"           -> <<"Mode", "Timeout", "IRQ">>
      [] cls = "PowerDown"                  -> <<"WakeUpEnable", "GenerateIRQ">>
      [] cls = "PowerDownResponse"          -> <<"Status">>
      [] OTHER                              -> <<>>

(* Frame.__metaclass__.__init__: the class attribute sent is derived from  *)
(* the parity of the code; it stays None (<<>>) for a class without code   *)
ClassSent(cls) ==
    IF __code__(cls) = <<>> THEN <<>> ELSE << __code__(cls)[1] % 2 = 0 >>

(* mutant of RegisterCode: a code that is taken keeps its class *)
RegisterCode_KeepFirst(types, code, c) ==
    IF code = <<>> THEN types
    ELSE IF code[1] \in DOMAIN types THEN types
    ELSE (code[1] :> c) @@ types

(* Frame.__metaclass__.__init__ on a new class c with __code__ code:       *)
(* Frame._types[cls.__code__] = cls, whatever was stored there before      *)
RegisterCode(types, code, c) ==
    IF code = <<>> THEN types
    ELSE (code[1] :> c) @@ types

(* Frame.__metaclass__.__init__ on one class of the package, by its name *)
Register(types, cls) == RegisterCode(types, __code__(cls), cls)

RECURSIVE RegisterAll(_, _)
RegisterAll(types, defs) ==
    IF defs = <<>> THEN types
    ELSE RegisterAll(Register(types, Head(defs)), Tail(defs))

(* Frame._types once the package is imported *)
_types == RegisterAll(<<>>, ClassDefs)

(* mutant of get_class: a code that is not there gives the class Frame *)
get_class_Fallback(code) ==
    IF code \in DOMAIN _types THEN [exc |-> "none", cls |-> _types[code]]
    ELSE [exc |-> "none", cls |-> "Frame"]

(* Frame.get_class(code): a dict lookup *)
get_class(code) ==
    IF code \in DOMAIN _types THEN [exc |-> "none", cls |-> _types[code]]
    ELSE [exc |-> "KeyError", cls |-> ""]

(* a frame object: its class, its constructor arguments (the namedtuple    *)
(* fields, or what __init__ stored), the attribute sent and the attribute  *)
(* command (<<>> for None, else the one paired request)                    *)
NewFrame(cls, args) ==
    [cls |-> cls, args |-> args, sent |-> ClassSent(cls), command |-> <<>>]

----------------------------------------------------------------------------
(* encoding *)

PayRaise(e)    == [exc |-> e, kind |-> "None", items |-> <<>>]
PaySeq(items)  == [exc |-> "none", kind |-> "seq", items |-> items]
PayNone        == [exc |-> "none", kind |-> "None", items |-> <<>>]

(* the value a __payload__ returns when it returns one attribute as it is: *)
(* None, a number (kind "int": not iterable) or something iterable         *)
PayValue(x) ==
    CASE x.t = "None" -> PayNone
      [] x.t = "int"  -> [exc |-> "none", kind |-> "int", items |-> <<x>>]
      [] x.t = "str"  -> PaySeq([i \in 1..Len(x.v) |-> PyStr(<<x.v[i]>>)])
      [] OTHER        -> PaySeq([i \in 1..Len(x.v) |-> PyInt(x.v[i])])

(* "x or 0" *)
OrZero(x) == IF x.t = "None" \/ x = PyInt(0) THEN PyInt(0) ELSE x

(* f.__payload__() of each class; Frame.__payload__ where none is defined  *)
__payload__(f) ==
    LET a == f.args IN
    CASE f.cls = "Diagnose" ->
            IF a[2].t = "None" THEN PaySeq(<<a[1]>>)
            ELSE IF a[2].t \in {"list", "tuple", "str"}
                 THEN PaySeq(<<a[1]>> \o PayValue(a[2]).items)
                 ELSE PaySeq(<<a[1], a[2]>>)
      [] f.cls \in {"GetFirmwareVersion", "GetGeneralStatus", "WriteRegisterResponse",
                    "ReadGPIO", "ConfigurationResponse"} -> PayNone
      [] f.cls = "GetFirmwareVersionResponse" -> PaySeq(<<a[1], a[2], a[3], a[4]>>)
      [] f.cls = "ReadRegister" ->
            PaySeq([i \in 1..Len(a) |-> PyTuple(<<a[i].v[1], 2>>)])
      [] f.cls = "ReadRegisterResponse" -> PaySeq(a)
      [] f.cls = "WriteRegister" ->
            LET ops == a[1].v
            IN  PaySeq([i \in 1..Len(ops) |->
                          IF i % 2 = 1 THEN PyTuple(<<ops[i], 2>>) ELSE PyInt(ops[i])])
      [] f.cls = "ReadGPIOResponse" -> PayRaise("NameError")
      [] f.cls = "WriteGPIO" -> PaySeq(<<OrZero(a[1]), OrZero(a[2])>>)
      [] f.cls = "SetSerialBaudRate" -> PayValue(a[1])
      [] f.cls = "SetParameters" -> PaySeq(<<a[1]>>)
      [] f.cls = "SAMConfiguration" ->
            IF a[3].t # "None" THEN PaySeq(<<a[1], a[2], a[3]>>)
            ELSE IF a[1] = PyInt(2) THEN PaySeq(<<a[1], a[2]>>)
            ELSE PaySeq(<<a[1]>>)
      [] f.cls = "PowerDown" ->
            IF a[2].t = "None" THEN PaySeq(<<a[1]>>) ELSE PaySeq(<<a[1], a[2]>>)
      [] f.cls = "PowerDownResponse" -> PaySeq(<<a[1]>>)
      [] f.cls = "Configuration" -> PayRaise("AttributeError")
      [] f.cls = "RegulationTest" -> PaySeq(<<a[1]>>)
      [] OTHER -> PayRaise("NotImplementedError")

(* the body of the loop over the fields in _buildpayload: a number is one  *)
(* byte, a byte string goes in as it is, a tuple is handed to tobytes, and *)
(* anything else is skipped                                                *)
FieldBytes(field) ==
    CASE field.t = "int"   -> bytepack(<<field>>)
      [] field.t = "str"   -> Ok(field.v)
      [] field.t = "tuple" -> IF Len(field.v) = 2 THEN tobytes(field.v[1], field.v[2])
                              ELSE Raise("TypeError")
      [] OTHER             -> Ok(<<>>)

(* s + t for two results of byte strings, the first exception winning *)
Join(h, r) ==
    IF h.exc # "none" THEN h
    ELSE IF r.exc # "none" THEN r
    ELSE Ok(h.val \o r.val)

(* the loop over the fields in _buildpayload: the bytes of the fields in   *)
(* order, or the exception of the first field that raises (the sequence    *)
(* is halved to keep the recursion shallow)                                *)
RECURSIVE PackFields(_)
PackFields(items) ==
    IF items = <<>> THEN Ok(<<>>)
    ELSE IF Len(items) = 1 THEN FieldBytes(items[1])
    ELSE Join(PackFields(SubSeq(items, 1, Len(items) \div 2)),
              PackFields(SubSeq(items, Len(items) \div 2 + 1, Len(items))))

(* _buildpayload once the direction tag, bytepack(self.__code__) and       *)
(* self.__payload__() are there: None gives no fields, and a number        *)
(* cannot be iterated over                                                 *)
PayloadOf(tfi, code, pl) ==
    IF code.exc # "none" THEN code
    ELSE IF pl.exc # "none" THEN Raise(pl.exc)
    ELSE IF pl.kind = "None" THEN Ok(tfi \o code.val)
    ELSE IF pl.kind = "int" THEN Raise("TypeError")
    ELSE Join(Ok(tfi \o code.val), PackFields(pl.items))

(* Frame._buildpayload (Error overrides it with tobytes(self.raw_code),    *)
(* a call with one argument missing)                                       *)
_buildpayload(f) ==
    IF f.cls = "Error" THEN Raise("TypeError")
    ELSE PayloadOf(IF f.sent = <<TRUE>> THEN <<212>> ELSE <<213>>,
                   bytepack(<<IF __code__(f.cls) = <<>> THEN PyNone
                              ELSE PyInt(__code__(f.cls)[1])>>),
                   __payload__(f))

(* towire, the branch len_ > 0xFF, lm being tobytes(len_, 2) *)
ExtendedForm(lm, payload, dcs) ==
    IF lm.exc # "none" THEN lm
    ELSE Ok(<<0, 255>> \o <<255, 255>> \o lm.val \o <<_checksum(lm.val)>>
            \o payload \o <<dcs>>)

(* towire from "dcs = self._checksum(payload)" on *)
Envelope(payload, len_, dcs) ==
    IF len_ <= 255
    THEN Ok(<<0, 255>> \o <<len_, _checksum(<<len_>>)>> \o payload \o <<dcs>>)
    ELSE ExtendedForm(tobytes(len_, 2), payload, dcs)

(* towire once self._buildpayload() has returned or raised *)
Wire(payload) ==
    IF payload.exc # "none" THEN payload
    ELSE Envelope(payload.val, Len(payload.val), _checksum(payload.val))

(* Frame.towire, and the literal towire of ACK and NACK *)
towire(f) ==
    CASE f.cls = "ACK"  -> Ok(<<0, 0, 255, 0, 255, 0>>)
      [] f.cls = "NACK" -> Ok(<<0, 0, 255, 255, 0, 0>>)
      [] OTHER          -> Wire(_buildpayload(f))

----------------------------------------------------------------------------
(* decoding *)

NoFrame == [cls |-> "", args |-> <<>>, sent |-> <<>>, command |-> <<>>]
Built(frame)  == [exc |-> "none", frame |-> frame]
BuildRaise(e) == [exc |-> e, frame |-> NoFrame]

(* the call cls(a1, ..., an): the namedtuple's __new__ of a decorated      *)
(* class takes exactly its fields, a class with its own __init__ takes     *)
(* what that declares, and any other class takes no argument               *)
Construct(cls, args) ==
    LET okay ==
          CASE fields(cls) # <<>> -> Len(args) = Len(fields(cls))
            [] cls \in {"ReadRegister", "ReadRegisterResponse"} -> TRUE
            [] cls = "WriteRegister" -> Len(args) = 1 /\ args[1].t = "dict"
            [] cls = "Configuration" -> Len(args) = 2
            [] cls \in {"RegulationTest", "Error"} -> Len(args) = 1
            [] OTHER -> Len(args) = 0
    IN  IF okay THEN Built(NewFrame(cls, args)) ELSE BuildRaise("TypeError")

(* cls.__build__(payload), payload a list of byte values *)
__build__(cls, payload) ==
    LET n == Len(payload) IN
    CASE cls = "DiagnoseResponse"  -> Construct(cls, <<PyList(payload)>>)
      [] cls = "WriteGPIOResponse" -> Construct(cls, <<>>)
      [] cls = "GetGeneralStatusResponse" ->
            IF n < 3 THEN BuildRaise("ValueError")
            ELSE IF payload[3] * 4 # Len(Slice(payload, 4, n - 1))
                 THEN BuildRaise("AssertionError")
                 ELSE Construct(cls, << PyInt(payload[1]), PyInt(payload[2]),
                                        PyList(Slice(payload, 4, n - 1)),
                                        PyInt(payload[n]) >>)
      [] OTHER -> Construct(cls, [i \in 1..n |-> PyInt(payload[i])])

(* Frame.fromwire(data): map(ord, data), then __build__ *)
fromwire(cls, data) == __build__(cls, data)

----------------------------------------------------------------------------
(* pn532/_stream.py: the pure parts of PN532.raw_get *)

(* PN532._verifychecksum over the byte values it is given: the exception   *)
(* it raises, or "none"                                                    *)
_verifychecksum(args) ==
    IF Sum(args) % 256 # 0 THEN "ChecksumError" ELSE "none"

(* "\x00\xFF" in header *)
HasStart(header) ==
    \E i \in 1..(Len(header) - 1) : header[i] = 0 /\ header[i + 1] = 255

(* header[header.index("\x00\xFF"):] *)
FromStart(header) ==
    LET start == CHOOSE i \in 1..(Len(header) - 1) :
                    /\ header[i] = 0 /\ header[i + 1] = 255
                    /\ \A j \in 1..(i - 1) : ~(header[j] = 0 /\ header[j + 1] = 255)
    IN  SubSeq(header, start, Len(header))

(* mutant of Classify: the two sentinel shapes taken for each other *)
Classify_Swapped(header) ==
    LET LEN0 == header[3]
        LCS  == header[4]
    IN  CASE LEN0 = 0 /\ LCS = 255   -> "NACK"
          [] LEN0 = 255 /\ LCS = 0   -> "ACK"
          [] LEN0 = 255 /\ LCS = 255 -> "extended"
          [] OTHER                   -> "normal"

(* the if/elif chain on (LEN, LCS) once four header bytes are there *)
Classify(header) ==
    LET LEN0 == header[3]
        LCS  == header[4]
    IN  CASE LEN0 = 0 /\ LCS = 255   -> "ACK"
          [] LEN0 = 255 /\ LCS = 0   -> "NACK"
          [] LEN0 = 255 /\ LCS = 255 -> "extended"
          [] OTHER                   -> "normal"

(* LEN of an extended frame as raw_get computes it from LENM and LENL *)
ExtendedLEN(LENM, LENL) == LENM * 255 + LENL

(* what a raw read ends with: an exception or a frame; raw_code is the     *)
(* argument of Error, a one-character string (<<>> when there is none)     *)
Returned(frame) == [exc |-> "none", frame |-> frame, raw_code |-> <<>>]
Raised(e)       == [exc |-> e, frame |-> NoFrame, raw_code |-> <<>>]
RaisedError(c)  == [exc |-> "Error", frame |-> NoFrame, raw_code |-> <<c>>]

(* mutant of Interpret: an unknown first byte reported as a bad checksum *)
Interpret_ParseError(data) ==
    IF Len(data) = 0 THEN Raised("IndexError")
    ELSE LET TFI == data[1] IN
         IF TFI \in {212, 213}
         THEN IF Len(data) < 2 THEN Raised("IndexError")
              ELSE LET c == get_class(data[2])
                       f == fromwire(c.cls, SubSeq(data, 3, Len(data)))
                   IN  IF c.exc # "none" THEN Raised(c.exc)
                       ELSE IF f.exc # "none" THEN Raised(f.exc)
                       ELSE Returned([f.frame EXCEPT !.sent = <<TFI = 212>>])
         ELSE Raised("ChecksumError")

(* the end of raw_get, from TFI = data[0] on *)
Interpret(data) ==
    IF Len(data) = 0 THEN Raised("IndexError")
    ELSE LET TFI == data[1] IN
         IF TFI \in {212, 213}
         THEN IF Len(data) < 2 THEN Raised("IndexError")
              ELSE LET c == get_class(data[2])
                       f == fromwire(c.cls, SubSeq(data, 3, Len(data)))
                   IN  IF c.exc # "none" THEN Raised(c.exc)
                       ELSE IF f.exc # "none" THEN Raised(f.exc)
                       ELSE Returned([f.frame EXCEPT !.sent = <<TFI = 212>>])
         ELSE RaisedError(TFI)

----------------------------------------------------------------------------
(* pn532/__init__.py: the properties of Error *)

(* a & b of two numbers that are not negative *)
RECURSIVE BitAnd(_, _)
BitAnd(a, b) ==
    IF a = 0 \/ b = 0 THEN 0
    ELSE (a % 2) * (b % 2) + 2 * BitAnd(a \div 2, b \div 2)

(* self.raw_code & mask: defined for a number, a TypeError for a string *)
RawCodeAnd(raw_code, mask) ==
    IF raw_code.t = "int" THEN Ok(<<BitAnd(raw_code.v[1], mask)>>)
    ELSE Raise("TypeError")

(* bool(x) of a result *)
Bool(r) == IF r.exc # "none" THEN r ELSE Ok(<<r.val[1] # 0>>)

(* the properties of an Error whose raw_code is the Python value raw_code *)
NADPresent(raw_code) == Bool(RawCodeAnd(raw_code, 128))
MI(raw_code)         == Bool(RawCodeAnd(raw_code, 64))
error_code(raw_code) == RawCodeAnd(raw_code, 63)

----------------------------------------------------------------------------
(* bounds of the model *)

MaxTime    == 2     \* the clock stops here; one unit is PN532.TIMEOUT_RES
MaxTimeout == 1     \* timeouts the caller passes: None or 1..MaxTimeout
MaxChunks  == 2     \* pieces the device sends in one behaviour
MaxCalls   == 1     \* top-level calls (doit, get) in one behaviour

(* what the device may put on the line in one piece *)
WireACK       == <<0, 0, 255, 0, 255, 0>>
WireNACK      == <<0, 0, 255, 255, 0, 0>>
WireResponse  == <<0, 255, 3, 253, 213, 23, 0, 20>>    \* PowerDownResponse(0)
WireBadDCS    == <<0, 255, 3, 253, 213, 23, 0, 21>>
WireBadLCS    == <<0, 255, 3, 252>>
WireError     == <<0, 255, 1, 255, 127, 129>>          \* error frame, status 0x7F
WireUnknown   == <<0, 255, 2, 254, 213, 25, 18>>       \* code 0x19 is no class
WireExtended  == <<0, 255, 255, 255, 0, 3, 253, 213, 23, 0, 20>>
WireBadLCS2   == <<0, 255, 255, 255, 0, 3, 252>>
WireTruncated == <<0, 255, 3, 253, 213>>
WireEmpty     == <<85, 0, 255, 0, 0, 0>>               \* LEN = 0, LCS = 0
WirePipelined == WireACK \o WireResponse \o <<0>>
WireLongHeader == <<0, 255, 255, 255, 1, 0, 255>>      \* LENM = 1, LENL = 0
(* ReadRegisterResponse(0, 255, 0, 255), 00 FF 06 FA D5 07 00 FF 00 FF 26, *)
(* sent in two pieces                                                      *)
WireSplitHead == <<0, 255, 6, 250, 213, 7>>
WireSplitTail == <<0, 255, 0, 255, 38>>

Chunks == { WireACK, WireNACK, WireResponse, WireBadDCS, WireBadLCS, WireError,
            WireUnknown, WireExtended, WireBadLCS2, WireTruncated, WireEmpty,
            WirePipelined }

(* a device that sends long frames, or a frame in two pieces with a pause  *)
(* between them                                                            *)
PieceChunks == { WireACK, WireResponse, WireLongHeader, WireSplitHead, WireSplitTail }

(* the frames the caller hands to doit *)
Requests == { NewFrame("GetFirmwareVersion", <<>>),
              NewFrame("ReadRegister", <<PyInt(65415)>>) }

(* the timeout argument: <<>> is None *)
Timeouts == {<<>>} \cup {<<t>> : t \in 1..MaxTimeout}

----------------------------------------------------------------------------
(* state *)

VARIABLES
    rx,        \* bytes the device has sent and the host has not read yet
    now,       \* time.time(), in units of the serial timeout
    nchunks,   \* pieces the device has sent
    ncalls,    \* top-level calls made
    pc,        \* where raw_get stands: "idle" or the serial.read it is about to make
    ctx,       \* who runs raw_get: "get", or doit at its first or second get
    timeout,   \* the timeout argument of the running call
    request,   \* the frame argument of doit
    stop,      \* raw_get: the deadline, <<>> for None
    header,    \* raw_get: header
    LEN,       \* raw_get: LEN
    data,      \* raw_get: data
    taken,     \* the bytes the running raw_get has read so far
    getStart,  \* the time at which the running get was called
    trace,     \* what the running (or last) top-level call did on the channel
    result,    \* how the last top-level call ended
    scope,     \* where the with statement on the PN532 object stands
    isOpen,    \* serial.isOpen()
    closes,    \* calls of serial.close() so far
    cframe,    \* codec: a frame to encode
    cwire,     \* codec: what towire made of it
    cread,     \* codec: what reading those bytes back gave
    registry,  \* Frame._types as the class statements fill it
    created,   \* the classes created so far, in order
    nstmt      \* the next class creation of the package's import

lvars == <<scope, isOpen, closes>>
tvars == <<rx, now, nchunks, ncalls, pc, ctx, timeout, request, stop, header,
           LEN, data, taken, getStart, trace, result, lvars>>
rvars == <<registry, created, nstmt>>
cvars == <<cframe, cwire, cread, rvars>>
vars  == <<tvars, cvars>>

Ev(ev, info, bytes) == [ev |-> ev, info |-> info, bytes |-> bytes]

Running == [exc |-> "running", frame |-> NoFrame, raw_code |-> <<>>]

NoRead == [exc |-> "unread", frame |-> NoFrame, raw_code |-> <<>>, LEN |-> 0,
           got |-> 0]

(* no call of raw_get, get or doit is running *)
Quiet ==
    /\ rx = <<>> /\ nchunks = 0 /\ ncalls = 0
    /\ pc = "idle" /\ ctx = "none" /\ timeout = <<>> /\ request = NoFrame
    /\ stop = <<>> /\ header = <<>> /\ LEN = 0 /\ data = <<>> /\ taken = <<>>
    /\ getStart = 0 /\ trace = <<>> /\ result = Running

(* the body of a with statement on a PN532 object has just been entered *)
TransportInit ==
    /\ Quiet /\ now = 0
    /\ scope = "body" /\ isOpen = TRUE /\ closes = 0

(* a class object: the class statement's own (tuple FALSE), or the one the *)
(* fields decorator makes of it with type(name, (cls, namedtuple), ...)    *)
Class(name, tuple) == [name |-> name, tuple |-> tuple]

(* one creation of a class: the class, its __code__ and what the           *)
(* metaclass raised                                                        *)
Creation(c, code, exc) == [cls |-> c, code |-> code, exc |-> exc]

(* the classes the import of the package creates, in order: every class    *)
(* statement, and after it the decorator's class when it has one           *)
RECURSIVE Imports(_)
Imports(defs) ==
    IF defs = <<>> THEN <<>>
    ELSE <<Class(Head(defs), FALSE)>>
         \o (IF fields(Head(defs)) # <<>> THEN <<Class(Head(defs), TRUE)>> ELSE <<>>)
         \o Imports(Tail(defs))

ImportedClasses == Imports(ClassDefs)

(* the package is imported *)
Imported ==
    /\ nstmt = Len(ImportedClasses) + 1
    /\ created = [i \in 1..Len(ImportedClasses) |->
                    Creation(ImportedClasses[i], __code__(ImportedClasses[i].name), "none")]
    /\ registry = [c \in DOMAIN _types |-> Class(_types[c], fields(_types[c]) # <<>>)]

CodecIdle ==
    /\ cframe = NoFrame /\ cwire = Raise("unset") /\ cread = NoRead
    /\ Imported

Init == TransportInit /\ CodecIdle

----------------------------------------------------------------------------
(* the serial port *)

(* serial.read(n): the bytes it returns, what stays in the line and the    *)
(* time it takes.  It returns at once or within one timeout when n bytes   *)
(* are there, and after one timeout, with what there is, when they are not *)
Reads(n) ==
    IF n = 0 THEN {[got |-> <<>>, rest |-> rx, dt |-> 0]}
    ELSE IF Len(rx) >= n
         THEN {[got |-> SubSeq(rx, 1, n), rest |-> SubSeq(rx, n + 1, Len(rx)), dt |-> d]
                  : d \in {0, 1}}
         ELSE {[got |-> rx, rest |-> <<>>, dt |-> 1]}

(* the device sends one piece (one frame, several frames back to back, or  *)
(* part of a frame) once the host has read all of the one before           *)
Device(pieces) ==
    /\ nchunks < MaxChunks /\ rx = <<>>
    /\ \E c \in pieces : rx' = rx \o c
    /\ nchunks' = nchunks + 1
    /\ UNCHANGED <<now, ncalls, pc, ctx, timeout, request, stop, header, LEN, data,
                   taken, getStart, trace, result, lvars, cvars>>

(* mutant of send: the frame written without what goes before it *)
send_NoPreamble(frame, preamble, postamble) ==
    Ev("write", frame.cls, towire(frame).val \o postamble)

(* PN532.send(frame, preamble, postamble): what serial.write is given *)
send(frame, preamble, postamble) ==
    Ev("write", frame.cls, preamble \o towire(frame).val \o postamble)

----------------------------------------------------------------------------
(* PN532.raw_get, PN532.get and PN532.doit.  A step of the model is one    *)
(* serial.read together with the code that runs up to the next read        *)

(* raw_get up to its first read: the deadline is computed from the time    *)
(* of this call and the timeout it is given                                *)
raw_get(tm, t, tr) ==
    /\ stop' = (IF tm = <<>> THEN <<>> ELSE <<t + tm[1]>>)
    /\ header' = <<>> /\ LEN' = 0 /\ data' = <<>> /\ taken' = <<>>
    /\ pc' = "seek"
    /\ trace' = Append(tr, Ev("raw_get", "", tm))

(* "stop is not None and stop < time.time()" *)
Expired(t) == stop # <<>> /\ stop[1] < t

(* a top-level call ends *)
EndCall(res, tr) ==
    /\ pc' = "idle" /\ ctx' = "none" /\ timeout' = <<>>
    /\ stop' = <<>> /\ header' = <<>> /\ LEN' = 0 /\ data' = <<>> /\ taken' = <<>>
    /\ result' = res
    /\ trace' = tr
    /\ UNCHANGED lvars

(* mutant of doit: the closing ACK written before the response is read *)
doit_AckEarly(out, t, tr) ==
    IF out.exc # "none"
    THEN EndCall(out, tr) /\ UNCHANGED <<request, getStart>>
    ELSE IF ctx = "doit_ack"
    THEN IF out.frame.cls = "ACK"
         THEN /\ raw_get(timeout, t, Append(tr, send(NewFrame("ACK", <<>>), <<0>>, <<0>>)))
              /\ ctx' = "doit_res"
              /\ getStart' = t
              /\ UNCHANGED <<timeout, request, result, lvars>>
         ELSE EndCall(Raised("IOError"), tr) /\ UNCHANGED <<request, getStart>>
    ELSE /\ EndCall(Returned([out.frame EXCEPT !.command = <<request>>]), tr)
         /\ UNCHANGED <<request, getStart>>

(* mutant of doit: whatever frame comes first is taken for the ACK *)
doit_AnyFirstFrame(out, t, tr) ==
    IF out.exc # "none"
    THEN EndCall(out, tr) /\ UNCHANGED <<request, getStart>>
    ELSE IF ctx = "doit_ack"
    THEN /\ raw_get(timeout, t, tr)
         /\ ctx' = "doit_res"
         /\ getStart' = t
         /\ UNCHANGED <<timeout, request, result, lvars>>
    ELSE /\ EndCall(Returned([out.frame EXCEPT !.command = <<request>>]),
                    Append(tr, send(NewFrame("ACK", <<>>), <<0>>, <<0>>)))
         /\ UNCHANGED <<request, getStart>>

(* mutant of doit: the closing ACK is written on the way out of a first    *)
(* frame that is not an ACK as well                                        *)
doit_AckAlways(out, t, tr) ==
    IF out.exc # "none"
    THEN EndCall(out, tr) /\ UNCHANGED <<request, getStart>>
    ELSE IF ctx = "doit_ack"
    THEN IF out.frame.cls = "ACK"
         THEN /\ raw_get(timeout, t, tr)
              /\ ctx' = "doit_res"
              /\ getStart' = t
              /\ UNCHANGED <<timeout, request, result, lvars>>
         ELSE /\ EndCall(Raised("IOError"),
                         Append(tr, send(NewFrame("ACK", <<>>), <<0>>, <<0>>)))
              /\ UNCHANGED <<request, getStart>>
    ELSE /\ EndCall(Returned([out.frame EXCEPT !.command = <<request>>]),
                    Append(tr, send(NewFrame("ACK", <<>>), <<0>>, <<0>>)))
         /\ UNCHANGED <<request, getStart>>

(* doit once one of its two gets has ended with out *)
doit(out, t, tr) ==
    IF out.exc # "none"
    THEN EndCall(out, tr) /\ UNCHANGED <<request, getStart>>
    ELSE IF ctx = "doit_ack"
    THEN IF out.frame.cls = "ACK"
         THEN /\ raw_get(timeout, t, tr)
              /\ ctx' = "doit_res"
              /\ getStart' = t
              /\ UNCHANGED <<timeout, request, result, lvars>>
         ELSE EndCall(Raised("IOError"), tr) /\ UNCHANGED <<request, getStart>>
    ELSE /\ EndCall(Returned([out.frame EXCEPT !.command = <<request>>]),
                    Append(tr, send(NewFrame("ACK", <<>>), <<0>>, <<0>>)))
         /\ UNCHANGED <<request, getStart>>

(* __enter__ leaves the with statement in scope sc: its body when it       *)
(* returns, nothing at all when it raises, for then __exit__ is not called *)
EndEnter(sc, res, tr) ==
    /\ pc' = "idle" /\ ctx' = "none" /\ timeout' = <<>>
    /\ stop' = <<>> /\ header' = <<>> /\ LEN' = 0 /\ data' = <<>> /\ taken' = <<>>
    /\ result' = res
    /\ trace' = tr
    /\ scope' = sc
    /\ UNCHANGED <<request, getStart, isOpen, closes>>

(* mutant of __enter__: a frame read by the first get is not followed by   *)
(* the second get                                                          *)
__enter___NoDrain(out, t, tr) ==
    IF out.exc \in {"none", "TimeoutError"} THEN EndEnter("body", Returned(NoFrame), tr)
    ELSE EndEnter("raised", out, tr)

(* __enter__ once one of its two gets has ended with out: try get(1.0),    *)
(* except TimeoutError pass, else get()                                    *)
__enter__(out, t, tr) ==
    IF ctx = "enter_get"
    THEN IF out.exc = "TimeoutError" THEN EndEnter("body", Returned(NoFrame), tr)
         ELSE IF out.exc # "none" THEN EndEnter("raised", out, tr)
         ELSE /\ raw_get(<<>>, t, tr)
              /\ ctx' = "enter_else" /\ timeout' = <<>> /\ getStart' = t
              /\ UNCHANGED <<request, result, lvars>>
    ELSE IF out.exc # "none" THEN EndEnter("raised", out, tr)
         ELSE EndEnter("body", Returned(NoFrame), tr)

(* who called get: a caller of the package, doit or __enter__ *)
Caller(out, t, tr) ==
    CASE ctx = "get" -> EndCall(out, tr) /\ UNCHANGED <<request, getStart>>
      [] ctx \in {"enter_get", "enter_else"} -> __enter__(out, t, tr)
      [] OTHER -> doit(out, t, tr)

(* mutant of get: ChecksumError is not caught *)
get_NoCatch(out, t, tr) ==
    Caller(out, t, tr)

(* mutant of get: "except IOError", which catches TimeoutError as well *)
get_CatchIOError(out, t, tr) ==
    IF out.exc \in {"ChecksumError", "TimeoutError"}
    THEN /\ raw_get(timeout, t, Append(tr, send(NewFrame("NACK", <<>>), <<0>>, <<0>>)))
         /\ UNCHANGED <<ctx, timeout, request, result, getStart, lvars>>
    ELSE Caller(out, t, tr)

(* get once its raw_get has ended with out: a ChecksumError is answered    *)
(* with a NACK and another raw_get(timeout); anything else goes to the     *)
(* caller                                                                  *)
get(out, t, tr) ==
    IF out.exc = "ChecksumError"
    THEN /\ raw_get(timeout, t, Append(tr, send(NewFrame("NACK", <<>>), <<0>>, <<0>>)))
         /\ UNCHANGED <<ctx, timeout, request, result, getStart, lvars>>
    ELSE Caller(out, t, tr)

(* raw_get returns or raises, having read the bytes tk *)
RawDone(out, t, tk) ==
    get(out, t,
        Append(trace, Ev(IF out.exc = "none" THEN "frame" ELSE "raise",
                         IF out.exc = "none" THEN out.frame.cls ELSE out.exc, tk)))

(* raw_get goes on to its next read *)
RawNext(p, h, l, d, tk) ==
    /\ pc' = p /\ header' = h /\ LEN' = l /\ data' = d /\ taken' = tk
    /\ UNCHANGED <<ctx, timeout, request, stop, getStart, trace, result, lvars>>

(* the loop: while "\x00\xFF" not in header *)
ReadSeek ==
    /\ pc = "seek"
    /\ \E r \in Reads(1) :
        LET h  == header \o r.got
            t  == now + r.dt
            tk == taken \o r.got
        IN  /\ t <= MaxTime
            /\ rx' = r.rest /\ now' = t
            /\ IF Expired(t) THEN RawDone(Raised("TimeoutError"), t, tk)
               ELSE IF HasStart(h) THEN RawNext("header", FromStart(h), 0, <<>>, tk)
               ELSE RawNext("seek", h, 0, <<>>, tk)
    /\ UNCHANGED <<nchunks, ncalls, cvars>>

(* the loop: while len(header) < 4, and the classification that follows *)
ReadHeader ==
    /\ pc = "header"
    /\ \E r \in Reads(1) :
        LET h  == header \o r.got
            t  == now + r.dt
            tk == taken \o r.got
        IN  /\ t <= MaxTime
            /\ rx' = r.rest /\ now' = t
            /\ IF Expired(t) THEN RawDone(Raised("TimeoutError"), t, tk)
               ELSE IF Len(h) < 4 THEN RawNext("header", h, 0, <<>>, tk)
               ELSE CASE Classify(h) = "ACK" ->
                            RawDone(Returned(NewFrame("ACK", <<>>)), t, tk)
                      [] Classify(h) = "NACK" ->
                            RawDone(Returned(NewFrame("NACK", <<>>)), t, tk)
                      [] Classify(h) = "extended" ->
                            RawNext("extended", h, h[3], <<>>, tk)
                      [] OTHER ->
                            IF _verifychecksum(<<h[3], h[4]>>) # "none"
                            THEN RawDone(Raised("ChecksumError"), t, tk)
                            ELSE RawNext("body", h, h[3], <<>>, tk)
    /\ UNCHANGED <<nchunks, ncalls, cvars>>

(* the loop: while len(header) < 7, and the length check that follows *)
ReadExtended ==
    /\ pc = "extended"
    /\ \E r \in Reads(1) :
        LET h  == header \o r.got
            t  == now + r.dt
            tk == taken \o r.got
        IN  /\ t <= MaxTime
            /\ rx' = r.rest /\ now' = t
            /\ IF Expired(t) THEN RawDone(Raised("TimeoutError"), t, tk)
               ELSE IF Len(h) < 7 THEN RawNext("extended", h, LEN, <<>>, tk)
               ELSE IF _verifychecksum(<<h[5], h[6], h[7]>>) # "none"
                    THEN RawDone(Raised("ChecksumError"), t, tk)
                    ELSE RawNext("body", h, ExtendedLEN(h[5], h[6]), <<>>, tk)
    /\ UNCHANGED <<nchunks, ncalls, cvars>>

(* data = self.serial.read(LEN) *)
ReadBody ==
    /\ pc = "body"
    /\ \E r \in Reads(LEN) :
        /\ now + r.dt <= MaxTime
        /\ rx' = r.rest /\ now' = now + r.dt
        /\ RawNext("dcs", header, LEN, r.got, taken \o r.got)
    /\ UNCHANGED <<nchunks, ncalls, cvars>>

(* DCS = self.serial.read(1), the data checksum and the payload *)
ReadDCS ==
    /\ pc = "dcs"
    /\ \E r \in Reads(1) :
        LET t  == now + r.dt
            tk == taken \o r.got
        IN  /\ t <= MaxTime
            /\ rx' = r.rest /\ now' = t
            /\ IF _verifychecksum(data \o r.got) # "none"
               THEN RawDone(Raised("ChecksumError"), t, tk)
               ELSE RawDone(Interpret(data), t, tk)
    /\ UNCHANGED <<nchunks, ncalls, cvars>>

(* a caller calls p.get(timeout) *)
CallGet ==
    /\ scope = "body" /\ pc = "idle" /\ ncalls < MaxCalls
    /\ \E tm \in Timeouts :
        /\ timeout' = tm
        /\ raw_get(tm, now, <<>>)
    /\ ctx' = "get" /\ request' = NoFrame /\ getStart' = now
    /\ result' = Running
    /\ ncalls' = ncalls + 1
    /\ UNCHANGED <<rx, now, nchunks, lvars, cvars>>

(* a caller calls p.doit(frame, timeout): send, then the first get *)
CallDoit ==
    /\ scope = "body" /\ pc = "idle" /\ ncalls < MaxCalls
    /\ \E f \in Requests, tm \in Timeouts :
        /\ request' = f
        /\ IF towire(f).exc # "none"
           THEN EndCall(Raised(towire(f).exc), <<>>) /\ UNCHANGED getStart
           ELSE /\ timeout' = tm
                /\ raw_get(tm, now, <<send(f, <<0>>, <<0>>)>>)
                /\ ctx' = "doit_ack" /\ getStart' = now
                /\ result' = Running
    /\ ncalls' = ncalls + 1
    /\ UNCHANGED <<rx, now, nchunks, lvars, cvars>>

(* the out-of-band bytes __enter__ sends ahead of its frame *)
WakeUp == <<85, 85, 0, 0, 0, 0, 0, 0, 0, 0, 0, 0, 0, 0, 0, 0, 0>>

(* the timeout of the first get of __enter__, 1.0 s, in serial timeouts *)
OpenTimeout == 5

(* "with PN532(port) as p:" calls __enter__: serial.open(), which may      *)
(* raise, then send(SAMConfiguration(1, 0, None)) and the first get        *)
Enter ==
    /\ scope = "new"
    /\ \E opened \in BOOLEAN :
        IF opened
        THEN /\ isOpen' = TRUE /\ scope' = "entering"
             /\ timeout' = <<OpenTimeout>>
             /\ raw_get(<<OpenTimeout>>, now,
                        << Ev("open", "", <<>>),
                           send(NewFrame("SAMConfiguration", <<PyInt(1), PyInt(0), PyNone>>),
                                WakeUp, <<0>>) >>)
             /\ ctx' = "enter_get" /\ getStart' = now
             /\ UNCHANGED <<request, result, closes>>
        ELSE /\ scope' = "raised" /\ result' = Raised("SerialException")
             /\ trace' = <<Ev("raise", "SerialException", <<>>)>>
             /\ UNCHANGED <<pc, ctx, timeout, request, stop, header, LEN, data, taken,
                            getStart, isOpen, closes>>
    /\ UNCHANGED <<rx, now, nchunks, ncalls, cvars>>

(* the with statement is left, by the end of its body or by an exception   *)
(* in it, and calls __exit__: send(ACK()), serial.close()                  *)
Exit ==
    /\ scope = "body" /\ pc = "idle"
    /\ scope' = "exited"
    /\ trace' = <<send(NewFrame("ACK", <<>>), <<0>>, <<0>>), Ev("close", "", <<>>)>>
    /\ isOpen' = FALSE /\ closes' = closes + 1
    /\ request' = NoFrame
    /\ UNCHANGED <<rx, now, nchunks, ncalls, pc, ctx, timeout, stop, header, LEN, data,
                   taken, getStart, result, cvars>>

Deliver == Device(Chunks)

Next ==
    \/ Deliver
    \/ CallGet
    \/ CallDoit
    \/ ReadSeek
    \/ ReadHeader
    \/ ReadExtended
    \/ ReadBody
    \/ ReadDCS

Spec == Init /\ [][Next]_vars

(* the whole with statement: the object is constructed and the port not    *)
(* yet open; the clock starts early enough for the timeout of __enter__    *)
(* to pass                                                                 *)
LifeInit ==
    /\ Quiet /\ now = 0 - (OpenTimeout + 1)
    /\ scope = "new" /\ isOpen = FALSE /\ closes = 0
    /\ CodecIdle

(* what the device sends in the life of a connection *)
LifeChunks == { WireACK, WireResponse, WireBadDCS, WireError, WirePipelined }

LifeDeliver == Device(LifeChunks)

LifeNext ==
    \/ Enter
    \/ Exit
    \/ LifeDeliver
    \/ CallGet
    \/ CallDoit
    \/ ReadSeek
    \/ ReadHeader
    \/ ReadBody
    \/ ReadDCS

SpecLife == LifeInit /\ [][LifeNext]_vars

(* the transport on an open port, with the device of PieceChunks *)
DeliverPieces == Device(PieceChunks)

PiecesNext ==
    \/ DeliverPieces
    \/ CallGet
    \/ CallDoit
    \/ ReadSeek
    \/ ReadHeader
    \/ ReadExtended
    \/ ReadBody
    \/ ReadDCS

SpecPieces == Init /\ [][PiecesNext]_vars

----------------------------------------------------------------------------
(* properties of the transport engine *)

NACKWritten == Ev("write", "NACK", <<0, 0, 0, 255, 255, 0, 0, 0>>)
ACKWritten  == Ev("write", "ACK", <<0, 0, 0, 255, 0, 255, 0, 0>>)

Frames == {i \in 1..Len(trace) : trace[i].ev = "frame"}
RawGets == {i \in 1..Len(trace) : trace[i].ev = "raw_get"}
Raises(e) == {i \in 1..Len(trace) : trace[i].ev = "raise" /\ trace[i].info = e}

DoitEnded == pc = "idle" /\ request # NoFrame /\ result.exc # "running"
DoitReturned == DoitEnded /\ result.exc = "none"

(* C1: a doit that returns has written the encoded request first, then     *)
(* read an ACK, then started another read and read the response, then      *)
(* written an ACK as the last thing it did; between the request and that   *)
(* ACK it wrote nothing but NACKs; and the frame it returns is the         *)
(* response, with command set to the frame it was given.                   *)
C1_DoitOrder ==
    DoitReturned =>
        LET n   == Len(trace)
            ack == CHOOSE i \in Frames : \A j \in Frames : i <= j
            res == CHOOSE i \in Frames : \A j \in Frames : j <= i
        IN  /\ Cardinality(Frames) = 2
            /\ trace[1] = Ev("write", request.cls, <<0>> \o towire(request).val \o <<0>>)
            /\ trace[ack].info = "ACK"
            /\ \E r \in (ack + 1)..(res - 1) : trace[r].ev = "raw_get"
            /\ res = n - 1
            /\ trace[n] = ACKWritten
            /\ \A i \in 2..(n - 1) : trace[i].ev = "write" => trace[i] = NACKWritten
            /\ result.frame.cls = trace[res].info
            /\ result.frame.command = <<request>>

C1_Witness ==
    /\ DoitReturned
    /\ result.frame.cls = "PowerDownResponse"
    /\ result.frame.args = <<PyInt(0)>>

(* C2: a doit whose first frame read is not an ACK ends with IOError,      *)
(* which is not the application Error; it returns no frame and reads and   *)
(* writes nothing after that frame.                                        *)
C2_NotAck ==
    (DoitEnded /\ Frames # {}) =>
        LET first == CHOOSE i \in Frames : \A j \in Frames : i <= j
        IN  trace[first].info # "ACK" =>
                /\ result.exc = "IOError"
                /\ result.exc # "Error"
                /\ result.frame = NoFrame
                /\ first = Len(trace)

C2_Witness ==
    /\ DoitEnded /\ result.exc = "IOError"
    /\ \E i \in Frames : trace[i].info \in {"NACK", "PowerDownResponse"}

(* C3: no call ends with ChecksumError; in the trace of a call every       *)
(* ChecksumError of a raw read is followed by exactly one NACK write and   *)
(* then one new raw read, and a NACK is written nowhere else.              *)
C3_NackRetry ==
    /\ result.exc # "ChecksumError"
    /\ \A i \in 1..Len(trace) :
        /\ (trace[i].ev = "raise" /\ trace[i].info = "ChecksumError") =>
              /\ i + 2 <= Len(trace)
              /\ trace[i + 1] = NACKWritten
              /\ trace[i + 2].ev = "raw_get"
              /\ i + 3 <= Len(trace) => trace[i + 3].ev # "raw_get"
        /\ (trace[i].ev = "write" /\ trace[i].info = "NACK") =>
              /\ i > 1
              /\ trace[i - 1].ev = "raise" /\ trace[i - 1].info = "ChecksumError"

(* a get hit one frame with a corrupted DCS and then returned the next one *)
C3_Witness ==
    /\ pc = "idle" /\ request = NoFrame /\ result.exc = "none"
    /\ Len(trace) = 5
    /\ trace[2] = Ev("raise", "ChecksumError", WireBadDCS)
    /\ trace[3] = NACKWritten
    /\ trace[5].ev = "frame" /\ trace[5].info = "PowerDownResponse"

(* C4: every raw read of one get(timeout=T) runs against the one deadline  *)
(* computed from the time get was called, so that the retries end by then. *)
C4_SingleDeadline ==
    (pc # "idle" /\ timeout # <<>>) => stop = <<getStart + timeout[1]>>

(* C5: a TimeoutError of a raw read is the last thing on the trace: the    *)
(* call has ended with TimeoutError, with no write and no read after it.   *)
C5_TimeoutPropagates ==
    \A i \in Raises("TimeoutError") :
        /\ i = Len(trace)
        /\ pc = "idle"
        /\ result.exc = "TimeoutError"

(* a timeout that came after a checksum retry *)
C5_Witness ==
    /\ pc = "idle" /\ result.exc = "TimeoutError"
    /\ Raises("ChecksumError") # {}
    /\ Raises("TimeoutError") # {}

(* the bytes a raw read has taken, from the first 00 FF on *)
Consumed(e) == FromStart(e.bytes)

(* e ends a raw read that took a whole short-form frame: header with a     *)
(* good LCS, LEN >= 1 payload bytes and a DCS that makes the sum zero      *)
TookGoodFrame(e) ==
    /\ e.ev \in {"frame", "raise"}
    /\ HasStart(e.bytes)
    /\ LET h == Consumed(e)
       IN  /\ Len(h) >= 6
           /\ h[3] >= 1
           /\ <<h[3], h[4]>> # <<255, 0>>
           /\ (h[3] + h[4]) % 256 = 0
           /\ Len(h) = 4 + h[3] + 1
           /\ Sum(SubSeq(h, 5, Len(h))) % 256 = 0

(* C6: a raw read that took a frame with good checksums whose first        *)
(* payload byte is neither 0xD4 nor 0xD5 raises Error with that byte as    *)
(* its argument; nothing is written or read after it and the call (get or  *)
(* doit) ends with that Error.                                             *)
C6_ErrorFrame ==
    \A i \in 1..Len(trace) :
        (TookGoodFrame(trace[i]) /\ Consumed(trace[i])[5] \notin {212, 213}) =>
            /\ trace[i].ev = "raise" /\ trace[i].info = "Error"
            /\ i = Len(trace)
            /\ pc = "idle"
            /\ result = RaisedError(Consumed(trace[i])[5])

(* a doit got its ACK and then the error frame with status 0x7F *)
C6_Witness ==
    /\ DoitEnded
    /\ result = RaisedError(127)
    /\ \E i \in Frames : trace[i].info = "ACK"

(* the header loop of a raw read ended (its deadline check did not raise)  *)
(* with these four bytes 00 FF LEN LCS read last                           *)
HeaderRead(e, LEN0, LCS) ==
    /\ e.ev \in {"frame", "raise"}
    /\ e.info # "TimeoutError"
    /\ HasStart(e.bytes)
    /\ Len(Consumed(e)) >= 4
    /\ Consumed(e)[3] = LEN0 /\ Consumed(e)[4] = LCS

(* C7: once the header loop has read 00 FF LEN LCS, the raw read returns   *)
(* ACK for (0x00, 0xFF) and NACK for (0xFF, 0x00), having taken no byte    *)
(* after LCS; and a raw read never goes on to a further read from such a   *)
(* header.                                                                 *)
C7_AckNack ==
    /\ \A i \in 1..Len(trace) :
         /\ HeaderRead(trace[i], 0, 255) =>
               /\ trace[i].ev = "frame" /\ trace[i].info = "ACK"
               /\ Len(Consumed(trace[i])) = 4
         /\ HeaderRead(trace[i], 255, 0) =>
               /\ trace[i].ev = "frame" /\ trace[i].info = "NACK"
               /\ Len(Consumed(trace[i])) = 4
    /\ pc \in {"extended", "body", "dcs"} =>
         <<header[3], header[4]>> \notin {<<0, 255>>, <<255, 0>>}

(* a get returned a NACK and left the byte after it in the line *)
C7_Witness ==
    /\ pc = "idle" /\ result.exc = "none" /\ result.frame.cls = "NACK"
    /\ trace[Len(trace)].bytes = <<0, 0, 255, 255, 0>>
    /\ rx = <<0>>

(* a doit of GetFirmwareVersion() has written its request *)
FirmwareRequested ==
    /\ request = NewFrame("GetFirmwareVersion", <<>>)
    /\ ctx \in {"doit_ack", "doit_res"} \/ DoitEnded

RequestWrites ==
    {i \in 1..Len(trace) : trace[i].ev = "write" /\ trace[i].info = request.cls}

(* C11, as the claim has it: doit(GetFirmwareVersion()) writes exactly the *)
(* bytes 00 FF 02 FE D4 02 1A 00 for the request.                          *)
C11_AsClaimed ==
    FirmwareRequested =>
        /\ RequestWrites = {1}
        /\ trace[1].bytes = <<0, 255, 2, 254, 212, 2, 26, 0>>

(* C11, amended: doit(GetFirmwareVersion()) writes exactly the bytes       *)
(* 00 00 FF 02 FE D4 02 2A 00 for the request, once and before anything    *)
(* else: the byte 00 send puts first, the start 00 FF, len = 2, lcs,       *)
(* payload D4 02, the dcs 2A that makes D4 + 02 + dcs = 0 mod 256, and the *)
(* byte 00 send puts last.                                                 *)
C11_FirmwareBytes ==
    FirmwareRequested =>
        /\ RequestWrites = {1}
        /\ trace[1].bytes = <<0, 0, 255, 2, 254, 212, 2, 42, 0>>

(* the request was written and the whole transaction went through *)
C11_Witness ==
    /\ FirmwareRequested /\ DoitReturned
    /\ trace[1].bytes = <<0, 0, 255, 2, 254, 212, 2, 42, 0>>

(* C15: a raw read that took a short-form frame with good checksums, a    *)
(* first payload byte 0xD4 or 0xD5 and a command code that is in no        *)
(* registered class raises KeyError, the failure of the lookup in          *)
(* Frame._types; no frame is returned, nothing is written or read after    *)
(* it, and the call (get or doit) ends with that KeyError.                 *)
C15_UnknownCode ==
    \A i \in 1..Len(trace) :
        ( /\ TookGoodFrame(trace[i])
          /\ Consumed(trace[i])[3] >= 2
          /\ Consumed(trace[i])[5] \in {212, 213}
          /\ Consumed(trace[i])[6] \notin DOMAIN _types ) =>
            /\ trace[i] = Ev("raise", "KeyError", trace[i].bytes)
            /\ i = Len(trace)
            /\ pc = "idle"
            /\ result = Raised("KeyError")

(* a doit got its ACK and then a frame with the code 0x19 *)
C15_Witness ==
    /\ DoitEnded
    /\ result.exc = "KeyError"
    /\ Consumed(trace[Len(trace)]) = WireUnknown
    /\ \E i \in Frames : trace[i].info = "ACK"

(* C16: for the Error a raw read raised with the status byte s,            *)
(* NADPresent is (s has bit 0x80), MI is (s has bit 0x40) and error_code   *)
(* is s mod 64.                                                            *)
C16_ErrorBits ==
    result.exc = "Error" =>
        LET s        == result.raw_code[1]
            raw_code == PyStr(result.raw_code)
        IN  /\ NADPresent(raw_code) = Ok(<<s \div 128 = 1>>)
            /\ MI(raw_code) = Ok(<<(s \div 64) % 2 = 1>>)
            /\ error_code(raw_code) = Ok(<<s % 64>>)

(* C17: a raw read that has taken an extended header 00 FF FF FF LENM      *)
(* LENL LCS2 goes on to the body only when LENM + LENL + LCS2 = 0 mod 256, *)
(* and then with LEN = LENM * 256 + LENL; with any other LCS2 it raises    *)
(* ChecksumError having read nothing after LCS2.                           *)
C17_ExtendedLength ==
    /\ (pc \in {"body", "dcs"} /\ Classify(header) = "extended") =>
          /\ Len(header) = 7
          /\ (header[5] + header[6] + header[7]) % 256 = 0
          /\ LEN = header[5] * 256 + header[6]
    /\ \A i \in 1..Len(trace) :
          ( /\ trace[i].ev \in {"frame", "raise"}
            /\ trace[i].info # "TimeoutError"
            /\ HasStart(trace[i].bytes)
            /\ Len(Consumed(trace[i])) >= 7
            /\ Classify(Consumed(trace[i])) = "extended"
            /\ Sum(SubSeq(Consumed(trace[i]), 5, 7)) % 256 # 0 ) =>
              /\ trace[i] = Ev("raise", "ChecksumError", trace[i].bytes)
              /\ Len(Consumed(trace[i])) = 7

(* the raw_get event of the raw read that the event i ends *)
CallOf(i) == CHOOSE j \in RawGets : j < i /\ \A k \in RawGets : k < i => k <= j

(* C18: a raw read with a timeout that has read a good short-form header   *)
(* goes on to the data checksum only with a body of LEN bytes, and when    *)
(* it ends having taken fewer than LEN + 1 bytes after the header it ends  *)
(* with TimeoutError.                                                      *)
C18_BodyDeadline ==
    \A i \in 1..Len(trace) :
        ( /\ trace[i].ev \in {"frame", "raise"}
          /\ trace[CallOf(i)].bytes # <<>>
          /\ HasStart(trace[i].bytes)
          /\ Len(Consumed(trace[i])) >= 4
          /\ Classify(Consumed(trace[i])) = "normal"
          /\ (Consumed(trace[i])[3] + Consumed(trace[i])[4]) % 256 = 0
          /\ Len(Consumed(trace[i])) < 4 + Consumed(trace[i])[3] + 1 ) =>
            trace[i] = Ev("raise", "TimeoutError", trace[i].bytes)

(* the raw reads of the call that have ended, in order *)
Ends == SelectSeq(trace, LAMBDA e : e.ev \in {"frame", "raise"})

RECURSIVE Flat(_)
Flat(ss) == IF ss = <<>> THEN <<>> ELSE Head(ss).bytes \o Flat(Tail(ss))

(* the bytes the device has sent since the call began: those the raw reads *)
(* have taken and those still in the line                                  *)
Seen == Flat(Ends) \o taken \o rx

(* f is ACK, NACK or a short-form data frame with good checksums, a        *)
(* direction tag and a registered code                                     *)
WellFormed(f) ==
    /\ Len(f) >= 4 /\ f[1] = 0 /\ f[2] = 255
    /\ \/ Len(f) = 4 /\ <<f[3], f[4]>> \in {<<0, 255>>, <<255, 0>>}
       \/ /\ f[3] >= 2 /\ (f[3] + f[4]) % 256 = 0
          /\ Len(f) = 4 + f[3] + 1
          /\ Sum(SubSeq(f, 5, Len(f))) % 256 = 0
          /\ f[5] \in {212, 213}
          /\ f[6] \in DOMAIN _types

FrameName(f) ==
    CASE <<f[3], f[4]>> = <<0, 255>> -> "ACK"
      [] <<f[3], f[4]>> = <<255, 0>> -> "NACK"
      [] OTHER                       -> _types[f[6]]

(* s read as a sequence of well-formed frames with bytes 00 before,        *)
(* between and after them: the frames, or ok = FALSE when s is not one     *)
RECURSIVE FramesOf(_)
FramesOf(s) ==
    IF \A i \in 1..Len(s) : s[i] = 0 THEN [ok |-> TRUE, frames |-> <<>>]
    ELSE LET p == CHOOSE i \in 1..Len(s) : s[i] # 0 /\ \A j \in 1..(i - 1) : s[j] = 0
         IN  IF p = 1 \/ s[p] # 255 \/ Len(s) < p + 2 THEN [ok |-> FALSE, frames |-> <<>>]
             ELSE LET h == SubSeq(s, p - 1, Len(s))
                      n == IF <<h[3], h[4]>> \in {<<0, 255>>, <<255, 0>>} THEN 4
                           ELSE 4 + h[3] + 1
                  IN  IF Len(h) < n \/ ~WellFormed(SubSeq(h, 1, n))
                      THEN [ok |-> FALSE, frames |-> <<>>]
                      ELSE LET r == FramesOf(SubSeq(h, n + 1, Len(h)))
                           IN  [ok |-> r.ok, frames |-> <<SubSeq(h, 1, n)>> \o r.frames]

(* C19: in the first call on a line, made with no timeout, when the bytes  *)
(* the device has sent are a sequence of well-formed frames (ACK, NACK or  *)
(* short-form data frames with good checksums and registered codes) with   *)
(* bytes 00 around them, the raw reads that have ended have each returned  *)
(* a frame, the k-th of them the k-th frame sent.                          *)
C19_OneFramePerFrame ==
    ( /\ ncalls <= 1
      /\ \A i \in RawGets : trace[i].bytes = <<>>
      /\ FramesOf(Seen).ok ) =>
        /\ Len(Ends) <= Len(FramesOf(Seen).frames)
        /\ \A k \in 1..Len(Ends) :
              /\ Ends[k].ev = "frame"
              /\ Ends[k].info = FrameName(FramesOf(Seen).frames[k])
              /\ Consumed(Ends[k]) = FramesOf(Seen).frames[k]

(* the writes of a call by the class of the frame written *)
Writes(cls) == {i \in 1..Len(trace) : trace[i].ev = "write" /\ trace[i].info = cls}

(* C20: a doit that has ended has written an ACK exactly when it returns   *)
(* a frame, and then as the last thing it did; when it ends with an        *)
(* exception its writes are the request, first, and after it one NACK for  *)
(* each ChecksumError of a raw read, and no ACK.                           *)
C20_AckIffReturned ==
    DoitEnded =>
        /\ result.exc = "none" => Writes("ACK") = {Len(trace)}
        /\ result.exc # "none" =>
              /\ Writes("ACK") = {}
              /\ \A i \in 1..Len(trace) :
                    trace[i].ev = "write" =>
                        \/ i = 1 /\ trace[1] = Ev("write", request.cls,
                                                   <<0>> \o towire(request).val \o <<0>>)
                        \/ i > 1 /\ trace[i] = NACKWritten
              /\ Cardinality(Writes("NACK")) = Cardinality(Raises("ChecksumError"))
              /\ towire(request).exc = "none" => trace[1].ev = "write"

(* a doit failed after a checksum retry *)
C20_Witness ==
    /\ DoitEnded
    /\ result.exc \in {"IOError", "TimeoutError", "Error", "KeyError"}
    /\ Writes("NACK") # {}
    /\ Writes(request.cls) = {1}

----------------------------------------------------------------------------
(* properties of the connection's life, under SpecLife *)

WithLeft == scope \in {"exited", "raised"}
WasOpened == isOpen \/ closes > 0

(* C12: once the with statement is over, a channel that was opened has     *)
(* been closed exactly once, and the last thing written before the close   *)
(* is a bare ACK.                                                          *)
C12_ReleasedOnce ==
    (WithLeft /\ WasOpened) =>
        /\ closes = 1 /\ ~isOpen
        /\ Len(trace) >= 2
        /\ trace[Len(trace) - 1] = ACKWritten
        /\ trace[Len(trace)].ev = "close"

(* __enter__ has returned and nothing has been called since *)
Entered == scope = "body" /\ pc = "idle" /\ trace # <<>> /\ trace[1].ev = "open"

SAMWritten ==
    Ev("write", "SAMConfiguration", WakeUp \o <<0, 255, 3, 253, 212, 20, 1, 23>> \o <<0>>)

(* C13: __enter__ opens the port, writes the SAMConfiguration frame (mode  *)
(* 1) after the wake-up bytes and calls get with the timeout of 1 s.  When *)
(* that get raises TimeoutError, __enter__ returns with the port open and  *)
(* no read after it; when it returns a frame, __enter__ calls get once     *)
(* more, with no timeout, and returns when that get has returned a frame.  *)
(* Apart from the first frame, the writes of __enter__ are the NACKs of    *)
(* get.                                                                    *)
C13_Open ==
    /\ ctx = "enter_get"  => (timeout = <<OpenTimeout>> /\ stop # <<>> /\ Frames = {})
    /\ ctx = "enter_else" => (timeout = <<>> /\ stop = <<>> /\ Cardinality(Frames) = 1)
    /\ Entered =>
         LET n == Len(trace) IN
         /\ isOpen
         /\ trace[2] = SAMWritten
         /\ trace[3] = Ev("raw_get", "", <<OpenTimeout>>)
         /\ \A i \in 3..n : trace[i].ev = "write" => trace[i] = NACKWritten
         /\ \/ /\ trace[n] = Ev("raise", "TimeoutError", trace[n].bytes)
               /\ Frames = {}
               /\ \A i \in RawGets : trace[i].bytes = <<OpenTimeout>>
            \/ /\ trace[n].ev = "frame"
               /\ Cardinality(Frames) = 2
               /\ LET first == CHOOSE i \in Frames : i < n
                  IN  /\ \A i \in RawGets : i < first => trace[i].bytes = <<OpenTimeout>>
                      /\ \A i \in RawGets : i > first => trace[i].bytes = <<>>
                      /\ trace[first + 1].ev = "raw_get"

(* __enter__ read a frame after a checksum retry, and then a second frame *)
C13_Witness ==
    /\ Entered
    /\ Cardinality(Frames) = 2
    /\ \E i \in Raises("ChecksumError") : \E j \in Frames : i < j

(* __enter__ ran into its timeout and returned *)
C13_TimedOut ==
    /\ Entered
    /\ trace[Len(trace)].ev = "raise" /\ trace[Len(trace)].info = "TimeoutError"

----------------------------------------------------------------------------
(* the codec on its own: a frame is encoded with towire, and the bytes     *)
(* that send would write for it are read back by raw_get from a line that  *)
(* holds all of them, with no timeout                                      *)

ReadResult(out, l, g) ==
    [exc |-> out.exc, frame |-> out.frame, raw_code |-> out.raw_code,
     LEN |-> l, got |-> g]

(* raw_get from "data = self.serial.read(LEN)" on, rest being the line     *)
ReadBodyAll(rest, l) ==
    IF _verifychecksum(Slice(rest, 1, l + 1)) # "none"
    THEN ReadResult(Raised("ChecksumError"), l, Len(Slice(rest, 1, l)))
    ELSE ReadResult(Interpret(Slice(rest, 1, l)), l, Len(Slice(rest, 1, l)))

(* raw_get from the first 00 FF on; it blocks when the line runs dry in    *)
(* one of its header loops                                                 *)
ReadFrom(h) ==
    IF Len(h) < 4 THEN ReadResult(Raised("blocked"), 0, 0)
    ELSE CASE Classify(h) = "ACK"  -> ReadResult(Returned(NewFrame("ACK", <<>>)), 0, 0)
           [] Classify(h) = "NACK" -> ReadResult(Returned(NewFrame("NACK", <<>>)), 0, 0)
           [] Classify(h) = "extended" ->
                IF Len(h) < 7 THEN ReadResult(Raised("blocked"), 0, 0)
                ELSE IF _verifychecksum(<<h[5], h[6], h[7]>>) # "none"
                     THEN ReadResult(Raised("ChecksumError"), ExtendedLEN(h[5], h[6]), 0)
                     ELSE ReadBodyAll(SubSeq(h, 8, Len(h)), ExtendedLEN(h[5], h[6]))
           [] OTHER ->
                IF _verifychecksum(<<h[3], h[4]>>) # "none"
                THEN ReadResult(Raised("ChecksumError"), h[3], 0)
                ELSE ReadBodyAll(SubSeq(h, 5, Len(h)), h[3])

ReadAll(bytes) ==
    IF HasStart(bytes) THEN ReadFrom(FromStart(bytes))
    ELSE ReadResult(Raised("blocked"), 0, 0)

(* field values and frames to encode *)
SampleBytes == {0, 4, 255}
SampleArgs  == {PyNone} \cup {PyInt(b) : b \in SampleBytes}

Fill(n, b) == [i \in 1..n |-> PyInt(b)]

(* the longest field lists: payloads of 2 + n bytes, up to one byte more   *)
(* than the short form can hold                                            *)
MaxFields == 254

CodecFrames ==
    {NewFrame(c, <<>>) : c \in {"ACK", "NACK", "GetFirmwareVersion", "GetGeneralStatus",
                                "ReadGPIO", "WriteRegisterResponse", "WriteGPIOResponse",
                                "SetSerialBaudRateResponse", "SetParametersResponse",
                                "SAMConfigurationResponse", "ConfigurationResponse",
                                "ReadRegister", "ReadRegisterResponse"}}
    \cup {NewFrame(c, <<PyInt(b)>>) :
              c \in {"SetSerialBaudRate", "SetParameters", "PowerDownResponse",
                     "RegulationTest", "ReadRegisterResponse"}, b \in SampleBytes}
    \cup {NewFrame("ReadRegister", <<PyInt(65415)>>),
          NewFrame("WriteRegister", <<PyDict(<<65415, 1>>)>>),
          NewFrame("DiagnoseResponse", <<PyList(<<0, 4>>)>>),
          NewFrame("GetFirmwareVersionResponse", <<PyInt(50), PyInt(1), PyInt(6), PyInt(7)>>),
          NewFrame("GetGeneralStatusResponse",
                   <<PyInt(0), PyInt(1), PyList(<<>>), PyInt(0)>>),
          NewFrame("ReadGPIOResponse", <<PyInt(0), PyInt(4), PyInt(255)>>),
          NewFrame("Configuration", <<PyInt(4), PyInt(0)>>),
          NewFrame("Error", <<PyStr(<<127>>)>>)}
    \cup {NewFrame("Diagnose", <<PyInt(4), x>>) : x \in SampleArgs \cup {PyTuple(<<0, 255>>)}}
    \cup {NewFrame(c, <<x, y>>) : c \in {"WriteGPIO", "PowerDown"},
                                  x \in SampleArgs \ {PyNone}, y \in SampleArgs}
    \cup {NewFrame("SAMConfiguration", <<PyInt(m), PyInt(0), y>>) :
              m \in {1, 2}, y \in SampleArgs}
    \cup {NewFrame("ReadRegisterResponse", Fill(n, b)) :
              n \in (MaxFields - 2)..MaxFields, b \in {0, 255}}

CodecInit ==
    /\ TransportInit
    /\ cframe \in CodecFrames
    /\ cwire = Raise("unset")
    /\ cread = NoRead
    /\ Imported

(* f.towire() *)
Encode ==
    /\ cwire.exc = "unset"
    /\ cwire' = towire(cframe)
    /\ UNCHANGED <<tvars, cframe, cread, rvars>>

(* send(f) writes '\0' + f.towire() + '\0'; raw_get reads that back *)
ReadBack ==
    /\ cwire.exc = "none" /\ cread.exc = "unread"
    /\ cread' = ReadAll(<<0>> \o cwire.val \o <<0>>)
    /\ UNCHANGED <<tvars, cframe, cwire, rvars>>

CodecNext ==
    \/ Encode
    \/ ReadBack

SpecCodec == CodecInit /\ [][CodecNext]_vars

----------------------------------------------------------------------------
(* the registry on its own: the import of the package creates its classes  *)
(* one after the other, and then the program defines classes of its own    *)

MaxNew == 2      \* classes the program defines after the import

NewNames == {"Mine", "Other"}
NewCodes == {<<>>, <<2>>, <<3>>, <<96>>}

RegistryInit ==
    /\ TransportInit
    /\ cframe = NoFrame /\ cwire = Raise("unset") /\ cread = NoRead
    /\ registry = <<>> /\ created = <<>> /\ nstmt = 1

(* the next class creation of the import *)
ClassStatement ==
    /\ nstmt <= Len(ImportedClasses)
    /\ LET c == ImportedClasses[nstmt] IN
        /\ registry' = RegisterCode(registry, __code__(c.name), c)
        /\ created' = Append(created, Creation(c, __code__(c.name), "none"))
    /\ nstmt' = nstmt + 1
    /\ UNCHANGED <<tvars, cframe, cwire, cread>>

(* "class Mine(Frame): __code__ = code" in the program *)
DefineClass ==
    /\ nstmt > Len(ImportedClasses)
    /\ Len(created) < Len(ImportedClasses) + MaxNew
    /\ \E name \in NewNames, code \in NewCodes :
        /\ registry' = RegisterCode(registry, code, Class(name, FALSE))
        /\ created' = Append(created, Creation(Class(name, FALSE), code, "none"))
    /\ UNCHANGED <<tvars, cframe, cwire, cread, nstmt>>

RegistryNext ==
    \/ ClassStatement
    \/ DefineClass

SpecRegistry == RegistryInit /\ [][RegistryNext]_vars

(* the creations so far of a class with this code *)
CreatedWith(code) == {i \in 1..Len(created) : created[i].code = <<code>>}

Codes == {created[i].code[1] : i \in {j \in 1..Len(created) : created[j].code # <<>>}}

(* C14, as the claim has it: the creation of a class with a code that is   *)
(* taken fails with DuplicateCode, and each code maps to the first class   *)
(* created with it.                                                        *)
C14_AsClaimed ==
    /\ DOMAIN registry = Codes
    /\ \A code \in Codes :
         LET first == CHOOSE i \in CreatedWith(code) : \A j \in CreatedWith(code) : i <= j
         IN  /\ registry[code] = created[first].cls
             /\ \A j \in CreatedWith(code) \ {first} : created[j].exc = "DuplicateCode"

(* C14, amended: the creation of a class with a code that is taken does    *)
(* not fail; it replaces the class stored under that code, so that after   *)
(* any sequence of class creations each code maps to exactly one class,    *)
(* the last one created with it.  After the import these are the classes   *)
(* get_class returns.                                                      *)
C14_LastRegistered ==
    /\ DOMAIN registry = Codes
    /\ \A i \in 1..Len(created) : created[i].exc = "none"
    /\ \A code \in Codes :
         LET last == CHOOSE i \in CreatedWith(code) : \A j \in CreatedWith(code) : j <= i
         IN  registry[code] = created[last].cls
    /\ (nstmt > Len(ImportedClasses) /\ Len(created) = Len(ImportedClasses)) =>
         /\ DOMAIN registry = DOMAIN _types
         /\ \A code \in DOMAIN _types : registry[code].name = get_class(code).cls

(* the program has defined a class with the code of GetFirmwareVersion *)
C14_Witness ==
    /\ Cardinality(CreatedWith(2)) = 2
    /\ registry[2] = Class("Mine", FALSE)
    /\ registry[3] = Class("GetFirmwareVersionResponse", TRUE)

----------------------------------------------------------------------------
(* properties of the codec *)

Encoded  == cwire.exc # "unset"
WasRead  == cread.exc # "unread"
Sentinel == cframe.cls \in {"ACK", "NACK"}

(* C8: a payload of 255 bytes is encoded in the short form 00 FF FF 01     *)
(* and a payload of 256 bytes in the extended form 00 FF FF FF 01 00 FF,   *)
(* and the reader takes from each a payload of the same length.            *)
C8_ShortAndExtended ==
    (Encoded /\ ~Sentinel /\ _buildpayload(cframe).exc = "none") =>
        LET n == Len(_buildpayload(cframe).val) IN
        /\ n = 255 =>
              /\ cwire.exc = "none"
              /\ SubSeq(cwire.val, 1, 4) = <<0, 255, 255, 1>>
              /\ Len(cwire.val) = 4 + n + 1
              /\ WasRead => (cread.LEN = n /\ cread.got = n)
        /\ n = 256 =>
              /\ cwire.exc = "none"
              /\ SubSeq(cwire.val, 1, 7) = <<0, 255, 255, 255, 1, 0, 255>>
              /\ Len(cwire.val) = 7 + n + 1
              /\ WasRead => (cread.LEN = n /\ cread.got = n)

(* every field of the frame is a number *)
NumberFields == \A i \in 1..Len(cframe.args) : cframe.args[i].t = "int"

(* C9: a frame of a registered class whose fields are numbers is encoded   *)
(* without an exception, and reading the bytes back gives a frame of the   *)
(* same class with the same field values.                                  *)
C9_RoundTrip ==
    (__code__(cframe.cls) # <<>> /\ NumberFields) =>
        /\ Encoded => cwire.exc = "none"
        /\ WasRead => /\ cread.exc = "none"
                      /\ cread.frame.cls = cframe.cls
                      /\ cread.frame.args = cframe.args

(* C10: in what towire returns for a frame that is not ACK or NACK, the    *)
(* length bytes and their checksum sum to 0 mod 256 (LEN, LCS in the short *)
(* form, LENM, LENL, LCS2 in the extended form), the payload and DCS sum   *)
(* to 0 mod 256, and the reader raises no ChecksumError on it.             *)
C10_Checksums ==
    (cwire.exc = "none" /\ ~Sentinel) =>
        LET w == cwire.val IN
        /\ IF <<w[3], w[4]>> = <<255, 255>>
           THEN /\ (w[5] + w[6] + w[7]) % 256 = 0
                /\ Sum(SubSeq(w, 8, Len(w))) % 256 = 0
           ELSE /\ (w[3] + w[4]) % 256 = 0
                /\ Len(w) = 4 + w[3] + 1
                /\ Sum(SubSeq(w, 5, Len(w))) % 256 = 0
        /\ WasRead => /\ cread.exc # "ChecksumError"
                      /\ cread.LEN = Len(_buildpayload(cframe).val)
                      /\ cread.got = cread.LEN

(* the longest short-form frame was encoded and read back *)
C10_Witness ==
    /\ WasRead /\ cread.exc = "none"
    /\ SubSeq(cwire.val, 1, 4) = <<0, 255, 255, 1>>
    /\ cread.frame = [cframe EXCEPT !.sent = <<FALSE>>]

====
